---- MODULE Spec2Model ----
(***************************************************************************)
(* Task tracking of the video-generation dashboard: the fixed-window rate  *)
(* limiter (lib/rate-limit), the /api/generate route (POST, GET and the    *)
(* detached processTask with its cleanup timers) over the in-memory task   *)
(* store, the dashboard page with the /api/generate-video route it calls,  *)
(* and the useGeneration hook polling /api/generate.  One action is one    *)
(* run of the event loop between two suspension points (await / timer),    *)
(* which is what the JavaScript runtime executes without interleaving.     *)
(***************************************************************************)
EXTENDS Integers, Sequences, FiniteSets, TLC

\* ---------------------------------------------------------------- constants
MAX_CONCURRENT_TASKS == 5
MAX_PROMPT_LENGTH == 1000
limit == 10
windowMs == 60000
CompletedTtl == 3600000
FailedTtl == 900000
PollIntervalMs == 1000
GenerationTimeoutMs == 300000

\* ------------------------------------------------------------------- bounds
MaxTasks == 2        \* tasks admitted in a run
MaxTasksPoll == 1    \* tasks admitted in a run that follows status queries
MaxTasksCap == 6     \* tasks admitted in a run that fills the concurrency cap
MaxTimeRL == 130000  \* horizon of Date.now() when the limiter runs alone
MaxChecks == 11      \* checks of one key that are followed inside one window
MaxInFlight == 1     \* POST requests suspended at `await request.json()`
MaxVideoTasks == 2   \* tasks created at the Runway API by /api/generate-video
MaxIntervals == 2    \* progress intervals of the dashboard alive at a time
MaxChecking == 1     \* status checks of /api/generate-video suspended at a time
MaxCalls == 1        \* calls of generate() of the client hook
MaxPolls == 3        \* interval ticks of one generate() call that are followed
MaxCallsOverlap == 2 \* calls of generate() when they overlap
MaxPollsOverlap == 1 \* interval ticks of a call that are followed when calls overlap

Absent == "undefined"      \* a JavaScript property that is not set
NoHeader == "null"         \* headers().get() of a header that is not sent

Headers == {NoHeader}                 \* x-forwarded-for of a request
RLKeys == {"unknown", "10.0.0.1"}     \* keys of direct rateLimit.check calls
TaskIds == 1..MaxTasks

\* The taskId parameter of a GET: missing (or empty), an id, or a name that
\* every JavaScript object inherits, such as "__proto__".
Queries ==
  {[kind |-> "none"], [kind |-> "inherited"]}
  \cup {[kind |-> "id", id |-> i] : i \in TaskIds}

\* JSON bodies of a POST: any subset of the fields type and prompt (a prompt
\* is represented by its length), and a body that is not JSON at all.
Types == {"image", "video", "audio"}
PromptLengths == {0, MAX_PROMPT_LENGTH, MAX_PROMPT_LENGTH + 1}
Bodies ==
  {[bad |-> TRUE], [none |-> TRUE], [type |-> "video"],
   [prompt |-> MAX_PROMPT_LENGTH], [type |-> "image", prompt |-> MAX_PROMPT_LENGTH]}
  \cup {[type |-> t, prompt |-> n] : t \in Types \ {"image"}, n \in PromptLengths}

\* What the upstream call can come back with: the fetch rejects, a non-OK
\* response, an OK response that is not JSON, or an OK response whose
\* payload has the given output (a URL is "" or a real one).
Outputs ==
  {[none |-> TRUE]}
  \cup {[image |-> "https://cdn/i.png"]}
  \cup {[video |-> u] : u \in {"", "https://cdn/v.mp4"}}
Upstream ==
  {[kind |-> "reject"], [kind |-> "notok"], [kind |-> "notjson"]}
  \cup {[kind |-> "ok", output |-> o] : o \in Outputs}


VARIABLES
  now,        \* Date.now()
  store,      \* RateLimit.store : key -> [count, resetTime]
  win,        \* per key: the window the last check fell in and its rank there
  apiKey,     \* process.env.RUNWAY_API_KEY is set
  tasks,      \* the task store : id -> Task
  issued,     \* ids crypto.randomUUID() has returned so far
  history,    \* per stored task: the values its status field was assigned
  reading,    \* number of POSTs suspended at `await request.json()`
  fetching,   \* ids whose processTask is suspended at `await fetch(...)`
  timers,     \* scheduled cleanups: [id, due, after]
  resp,       \* what the step just taken returned to its caller: an HTTP
              \* response, or the result of a direct check (op "none" if none)
  ui,         \* the dashboard page: its React state and its pending request
  videoTasks, \* the task store of /api/generate-video : id -> record
  runway,     \* the tasks the Runway API holds : id -> [status, output, error]
  checking,   \* status checks of /api/generate-video suspended after the
              \* upstream answered: [id, data]
  hook        \* useGeneration: its React state and its generate() calls

vars == <<now, store, win, apiKey, tasks, issued, history, reading, fetching,
          timers, resp, ui, videoTasks, runway, checking, hook>>

\* What the /api/generate route and the rate limiter never touch: the
\* dashboard with its route, and with them the hook (to which the handlers of
\* the route may be answering).
dashVars == <<ui, videoTasks, runway, checking>>
clientVars == <<ui, videoTasks, runway, checking, hook>>

NoResp == [op |-> "none"]

\* ------------------------------------------------------------ rate limiter
\* check with `>` for `>=` in the test of the count against the limit.
check_countPastLimit(s, key, t) ==
  LET has == key \in DOMAIN s
      expired == has /\ t > s[key].resetTime
  IN  IF ~has \/ expired
      THEN [store |-> [k \in (DOMAIN s) \cup {key} |->
                         IF k = key THEN [count |-> 1, resetTime |-> t + windowMs]
                         ELSE s[k]],
            success |-> TRUE, remaining |-> limit - 1]
      ELSE IF s[key].count > limit
      THEN [store |-> s, success |-> FALSE, remaining |-> 0]
      ELSE [store |-> [s EXCEPT ![key].count = @ + 1],
            success |-> TRUE, remaining |-> limit - (s[key].count + 1)]

\* check that opens a window only for a key without an entry.
check_neverExpires(s, key, t) ==
  LET has == key \in DOMAIN s
  IN  IF ~has
      THEN [store |-> [k \in (DOMAIN s) \cup {key} |->
                         IF k = key THEN [count |-> 1, resetTime |-> t + windowMs]
                         ELSE s[k]],
            success |-> TRUE, remaining |-> limit - 1]
      ELSE IF s[key].count >= limit
      THEN [store |-> s, success |-> FALSE, remaining |-> 0]
      ELSE [store |-> [s EXCEPT ![key].count = @ + 1],
            success |-> TRUE, remaining |-> limit - (s[key].count + 1)]

\* check that counts the requests it rejects as well.
check_countsRejected(s, key, t) ==
  LET has == key \in DOMAIN s
      expired == has /\ t > s[key].resetTime
  IN  IF ~has \/ expired
      THEN [store |-> [k \in (DOMAIN s) \cup {key} |->
                         IF k = key THEN [count |-> 1, resetTime |-> t + windowMs]
                         ELSE s[k]],
            success |-> TRUE, remaining |-> limit - 1]
      ELSE IF s[key].count >= limit
      THEN [store |-> [s EXCEPT ![key].count = @ + 1],
            success |-> FALSE, remaining |-> 0]
      ELSE [store |-> [s EXCEPT ![key].count = @ + 1],
            success |-> TRUE, remaining |-> limit - (s[key].count + 1)]

\* check that computes `remaining` before it increments the count.
check_remainingBeforeUpdate(s, key, t) ==
  LET has == key \in DOMAIN s
      expired == has /\ t > s[key].resetTime
  IN  IF ~has \/ expired
      THEN [store |-> [k \in (DOMAIN s) \cup {key} |->
                         IF k = key THEN [count |-> 1, resetTime |-> t + windowMs]
                         ELSE s[k]],
            success |-> TRUE, remaining |-> limit - 1]
      ELSE IF s[key].count >= limit
      THEN [store |-> s, success |-> FALSE, remaining |-> 0]
      ELSE [store |-> [s EXCEPT ![key].count = @ + 1],
            success |-> TRUE, remaining |-> limit - s[key].count]

\* RateLimit.check(key) at time t on store s: the new store and the result.
check(s, key, t) ==
  LET has == key \in DOMAIN s
      expired == has /\ t > s[key].resetTime
  IN  IF ~has \/ expired
      THEN [store |-> [k \in (DOMAIN s) \cup {key} |->
                         IF k = key THEN [count |-> 1, resetTime |-> t + windowMs]
                         ELSE s[k]],
            success |-> TRUE, remaining |-> limit - 1]
      ELSE IF s[key].count >= limit
      THEN [store |-> s, success |-> FALSE, remaining |-> 0]
      ELSE [store |-> [s EXCEPT ![key].count = @ + 1],
            success |-> TRUE, remaining |-> limit - (s[key].count + 1)]

\* RateLimit.cleanup(): drops every entry whose window is over.
cleanup(s, t) ==
  [k \in {j \in DOMAIN s : ~(t > s[j].resetTime)} |-> s[k]]

\* The window a check of key at time t falls in, by the clock alone: a check
\* opens a window of windowMs when the key has none or its window is over,
\* and is the next check of the running window otherwise.
windowOf(w, key, t) ==
  IF key \notin DOMAIN w \/ t > w[key].end
  THEN [end |-> t + windowMs, n |-> 1]
  ELSE [end |-> w[key].end, n |-> w[key].n + 1]

noteCheck(w, key, t) ==
  [k \in (DOMAIN w) \cup {key} |-> IF k = key THEN windowOf(w, key, t) ELSE w[k]]

\* The key of POST without the fallback to 'unknown'.
ipOf_noFallback(h) == h

\* The key POST checks: the x-forwarded-for header, or 'unknown'.
ipOf(h) == IF h = NoHeader \/ h = "" THEN "unknown" ELSE h

\* A direct call of rateLimit.check(key).
Check(key) ==
  LET r == check(store, key, now) IN
  /\ windowOf(win, key, now).n <= MaxChecks
  /\ store' = r.store
  /\ win' = noteCheck(win, key, now)
  /\ resp' = [op |-> "check", key |-> key, success |-> r.success,
              remaining |-> r.remaining]
  /\ UNCHANGED <<now, apiKey, tasks, issued, history, reading, fetching, timers>>
  /\ UNCHANGED clientVars

\* A call of rateLimit.cleanup().
Cleanup ==
  /\ store' = cleanup(store, now)
  /\ store' # store
  /\ resp' = NoResp
  /\ UNCHANGED <<now, win, apiKey, tasks, issued, history, reading, fetching,
                 timers>>
  /\ UNCHANGED clientVars

\* ------------------------------------------------------------- task store
has(b, f) == f \in DOMAIN b

\* The active tasks taken to be all the records there are.
activeTasks_countsAll(tk) == DOMAIN tk

\* Object.values(tasks).filter(pending or processing)
activeTasks(tk) ==
  {i \in DOMAIN tk : tk[i].status = "pending" \/ tk[i].status = "processing"}

\* An id source that returns the same id every time.
randomUUID_constant(used) == 1

\* crypto.randomUUID(): an id that was never returned before (the ids are
\* numbered in the order they are handed out).
randomUUID(used) == Cardinality(used) + 1

\* The Task literal of POST.
newTask(id, type, t) ==
  [id |-> id, type |-> type, status |-> "pending", progress |-> 0,
   result |-> Absent, error |-> Absent, createdAt |-> t]

\* An assignment to task.status; th pairs the task object with the values its
\* status has been assigned.
assign(th, s) ==
  [task |-> [th.task EXCEPT !.status = s], log |-> Append(th.log, s)]

\* A catch block that records the error and leaves the status as it was.
fail_keepsStatus(th, msg) ==
  [th EXCEPT !.task.error = msg]

\* A catch block that marks the task failed and drops the message.
fail_noMessage(th, msg) ==
  assign(th, "failed")

\* The catch block of processTask.
fail(th, msg) ==
  [assign(th, "failed") EXCEPT !.task.error = msg]

\* The end of the try block without the assignment of the progress.
complete_noProgress(th, url) ==
  [assign(th, "completed") EXCEPT !.task.result = url]

\* The end of the try block of processTask.
complete(th, url) ==
  [assign(th, "completed") EXCEPT !.task.progress = 100, !.task.result = url]

\* processTask up to its first suspension point.
begin(th, key) ==
  LET p == assign(th, "processing")
  IN  IF ~key THEN fail(p, "RUNWAY_API_KEY is not configured") ELSE p

\* settle that marks the task completed before it looks for the URL.
settle_statusBeforeUrlCheck(th, r) ==
  LET field == IF th.task.type = "image" THEN "image" ELSE "video"
  IN  CASE r.kind = "reject"  -> fail(th, "fetch failed")
        [] r.kind = "notok"   -> fail(th, "Runway API error")
        [] r.kind = "notjson" -> fail(th, "Unexpected token in JSON")
        [] OTHER ->
             IF ~has(r.output, field) \/ r.output[field] = ""
             THEN fail(complete(th, Absent), "No URL returned from Runway API")
             ELSE complete(th, r.output[field])

\* settle without the test that the payload has a URL.
settle_noUrlCheck(th, r) ==
  LET field == IF th.task.type = "image" THEN "image" ELSE "video"
  IN  CASE r.kind = "reject"  -> fail(th, "fetch failed")
        [] r.kind = "notok"   -> fail(th, "Runway API error")
        [] r.kind = "notjson" -> fail(th, "Unexpected token in JSON")
        [] OTHER ->
             complete(th, IF has(r.output, field) THEN r.output[field] ELSE Absent)

\* processTask from the answer of the upstream call on.
settle(th, r) ==
  LET field == IF th.task.type = "image" THEN "image" ELSE "video"
  IN  CASE r.kind = "reject"  -> fail(th, "fetch failed")
        [] r.kind = "notok"   -> fail(th, "Runway API error")
        [] r.kind = "notjson" -> fail(th, "Unexpected token in JSON")
        [] OTHER ->
             IF ~has(r.output, field) \/ r.output[field] = ""
             THEN fail(th, "No URL returned from Runway API")
             ELSE complete(th, r.output[field])

\* Cleanup scheduled after the same delay for both terminal states.
cleanupTimer_oneTtl(task, t) ==
  [id |-> task.id,
   due |-> t + (IF task.status = "completed" THEN FailedTtl ELSE FailedTtl)]

\* The setTimeout that follows a terminal status.
cleanupTimer(task, t) ==
  [id |-> task.id,
   due |-> t + (IF task.status = "completed" THEN CompletedTtl ELSE FailedTtl)]

\* verdict without the test of the prompt length.
verdict_noLengthCheck(b, tk) ==
  IF has(b, "bad")
  THEN [code |-> 500, error |-> "Failed to create task"]
  ELSE IF ~has(b, "type") \/ ~has(b, "prompt") \/ b.prompt = 0
  THEN [code |-> 400, error |-> "Type and prompt are required"]
  ELSE IF b.type # "image" /\ b.type # "video"
  THEN [code |-> 400, error |-> "Type must be either image or video"]
  ELSE IF Cardinality(activeTasks(tk)) >= MAX_CONCURRENT_TASKS
  THEN [code |-> 429, error |-> "Maximum number of concurrent tasks reached"]
  ELSE [code |-> 200, error |-> "admit"]

\* verdict without the test of the type against image and video.
verdict_noTypeCheck(b, tk) ==
  IF has(b, "bad")
  THEN [code |-> 500, error |-> "Failed to create task"]
  ELSE IF ~has(b, "type") \/ ~has(b, "prompt") \/ b.prompt = 0
  THEN [code |-> 400, error |-> "Type and prompt are required"]
  ELSE IF b.prompt > MAX_PROMPT_LENGTH
  THEN [code |-> 400, error |-> "Prompt must be less than 1000 characters"]
  ELSE IF Cardinality(activeTasks(tk)) >= MAX_CONCURRENT_TASKS
  THEN [code |-> 429, error |-> "Maximum number of concurrent tasks reached"]
  ELSE [code |-> 200, error |-> "admit"]

\* verdict with `>` for `>=` in the test of the active tasks against the cap.
verdict_capPlusOne(b, tk) ==
  IF has(b, "bad")
  THEN [code |-> 500, error |-> "Failed to create task"]
  ELSE IF ~has(b, "type") \/ ~has(b, "prompt") \/ b.prompt = 0
  THEN [code |-> 400, error |-> "Type and prompt are required"]
  ELSE IF b.type # "image" /\ b.type # "video"
  THEN [code |-> 400, error |-> "Type must be either image or video"]
  ELSE IF b.prompt > MAX_PROMPT_LENGTH
  THEN [code |-> 400, error |-> "Prompt must be less than 1000 characters"]
  ELSE IF Cardinality(activeTasks(tk)) > MAX_CONCURRENT_TASKS
  THEN [code |-> 429, error |-> "Maximum number of concurrent tasks reached"]
  ELSE [code |-> 200, error |-> "admit"]

\* The checks POST makes on a parsed body before it creates a task, in the
\* order of the code; "admit" when all pass.
verdict(b, tk) ==
  IF has(b, "bad")
  THEN [code |-> 500, error |-> "Failed to create task"]
  ELSE IF ~has(b, "type") \/ ~has(b, "prompt") \/ b.prompt = 0
  THEN [code |-> 400, error |-> "Type and prompt are required"]
  ELSE IF b.type # "image" /\ b.type # "video"
  THEN [code |-> 400, error |-> "Type must be either image or video"]
  ELSE IF b.prompt > MAX_PROMPT_LENGTH
  THEN [code |-> 400, error |-> "Prompt must be less than 1000 characters"]
  ELSE IF Cardinality(activeTasks(tk)) >= MAX_CONCURRENT_TASKS
  THEN [code |-> 429, error |-> "Maximum number of concurrent tasks reached"]
  ELSE [code |-> 200, error |-> "admit"]

\* A store that loses what is put into it.
put_lost(f, k, v) == f

\* f[k] = v on a JavaScript object.
put(f, k, v) == [x \in (DOMAIN f) \cup {k} |-> IF x = k THEN v ELSE f[x]]
drop(f, k) == [x \in (DOMAIN f) \ {k} |-> f[x]]

\* POST /api/generate, rate limit passed: suspended at `await request.json()`.
PostArriveFor(h) ==
  LET key == ipOf(h)
      r == check(store, key, now)
  IN  /\ reading < MaxInFlight
      /\ windowOf(win, key, now).n <= MaxChecks
      /\ r.success
      /\ store' = r.store
      /\ win' = noteCheck(win, key, now)
      /\ reading' = reading + 1
      /\ resp' = NoResp
      /\ UNCHANGED <<now, apiKey, tasks, issued, history, fetching, timers>>
      /\ UNCHANGED dashVars

\* ... for a request of some other client than the hook.
PostArrive(h) == PostArriveFor(h) /\ UNCHANGED hook

\* POST /api/generate, rate limit hit: answered before the body b that the
\* request carries is read.
PostLimitedFor(h, b) ==
  LET key == ipOf(h)
      r == check(store, key, now)
  IN  /\ windowOf(win, key, now).n <= MaxChecks
      /\ ~r.success
      /\ store' = r.store
      /\ win' = noteCheck(win, key, now)
      /\ resp' = [op |-> "POST", code |-> 429, error |-> "Too many requests"]
      /\ UNCHANGED <<now, apiKey, tasks, issued, history, reading, fetching,
                     timers>>
      /\ UNCHANGED dashVars

\* ... for a request of some other client than the hook.
PostLimited(h, b) == PostLimitedFor(h, b) /\ UNCHANGED hook

\* POST /api/generate from the parsed body b to the response, with the part
\* of processTask that runs inside the call.
PostBodyFor(b, maxTasks) ==
  LET v == verdict(b, tasks)
      id == randomUUID(issued)
      th == begin([task |-> newTask(id, b.type, now), log |-> <<"pending">>],
                  apiKey)
  IN  /\ reading > 0
      /\ reading' = reading - 1
      /\ IF v.error # "admit"
         THEN /\ resp' = [op |-> "POST", code |-> v.code, error |-> v.error]
              /\ UNCHANGED <<tasks, issued, history, fetching, timers>>
         ELSE /\ Cardinality(issued) < maxTasks
              /\ issued' = issued \cup {id}
              /\ tasks' = put(tasks, id, th.task)
              /\ history' = put(history, id, th.log)
              /\ IF th.task.status = "processing"
                 THEN /\ fetching' = fetching \cup {id}
                      /\ timers' = timers
                 ELSE /\ fetching' = fetching
                      /\ timers' = timers \cup {cleanupTimer(th.task, now)}
              /\ resp' = [op |-> "POST", code |-> 200, taskId |-> id]
      /\ UNCHANGED <<now, store, win, apiKey>>
      /\ UNCHANGED dashVars

\* ... for a request of some other client than the hook.
PostBody(b, maxTasks) == PostBodyFor(b, maxTasks) /\ UNCHANGED hook

\* processTask that calls the upstream again after a call that failed.
UpstreamDone_retries(id, r) ==
  LET th == settle([task |-> tasks[id], log |-> history[id]], r)
  IN  /\ id \in fetching
      /\ fetching' = IF th.task.status = "failed" THEN fetching
                     ELSE fetching \ {id}
      /\ tasks' = [tasks EXCEPT ![id] = th.task]
      /\ history' = [history EXCEPT ![id] = th.log]
      /\ timers' = timers \cup {cleanupTimer(th.task, now)}
      /\ resp' = NoResp
      /\ UNCHANGED <<now, store, win, apiKey, issued, reading>>
      /\ UNCHANGED clientVars

\* processTask resumes with the outcome r of its upstream call.
UpstreamDone(id, r) ==
  LET th == settle([task |-> tasks[id], log |-> history[id]], r)
  IN  /\ id \in fetching
      /\ fetching' = fetching \ {id}
      /\ tasks' = [tasks EXCEPT ![id] = th.task]
      /\ history' = [history EXCEPT ![id] = th.log]
      /\ timers' = timers \cup {cleanupTimer(th.task, now)}
      /\ resp' = NoResp
      /\ UNCHANGED <<now, store, win, apiKey, issued, reading>>
      /\ UNCHANGED clientVars

\* A cleanup callback scheduled by processTask runs.
Expire(tm) ==
  /\ tm \in timers
  /\ now >= tm.due
  /\ timers' = timers \ {tm}
  /\ IF tm.id \in DOMAIN tasks
     THEN tasks' = drop(tasks, tm.id) /\ history' = drop(history, tm.id)
     ELSE UNCHANGED <<tasks, history>>
  /\ resp' = NoResp
  /\ UNCHANGED <<now, store, win, apiKey, issued, reading, fetching>>
  /\ UNCHANGED clientVars

\* tasks[taskId] on the object literal that holds the tasks: an own entry,
\* else what Object.prototype has under that name, else undefined.
ObjectPrototype == [inherited |-> TRUE]
lookup(tk, q) ==
  IF q.kind = "inherited" THEN ObjectPrototype
  ELSE IF q.id \in DOMAIN tk THEN tk[q.id]
  ELSE [undefined |-> TRUE]

\* A GET that hands a record out once: it removes the record it returns.
GetFor_consumes(q) ==
  /\ resp' = IF q.kind = "none"
             THEN [op |-> "GET", q |-> q, code |-> 400,
                   error |-> "Task ID is required"]
             ELSE IF has(lookup(tasks, q), "undefined")
             THEN [op |-> "GET", q |-> q, code |-> 404,
                   error |-> "Task not found"]
             ELSE [op |-> "GET", q |-> q, code |-> 200,
                   task |-> lookup(tasks, q)]
  /\ IF q.kind = "id" /\ q.id \in DOMAIN tasks
     THEN tasks' = drop(tasks, q.id) /\ history' = drop(history, q.id)
     ELSE UNCHANGED <<tasks, history>>
  /\ UNCHANGED <<now, store, win, apiKey, issued, reading, fetching, timers>>
  /\ UNCHANGED dashVars

\* GET /api/generate?taskId=q
GetFor(q) ==
  /\ resp' = IF q.kind = "none"
             THEN [op |-> "GET", q |-> q, code |-> 400,
                   error |-> "Task ID is required"]
             ELSE IF has(lookup(tasks, q), "undefined")
             THEN [op |-> "GET", q |-> q, code |-> 404,
                   error |-> "Task not found"]
             ELSE [op |-> "GET", q |-> q, code |-> 200,
                   task |-> lookup(tasks, q)]
  /\ UNCHANGED <<now, store, win, apiKey, tasks, issued, history, reading,
                 fetching, timers>>
  /\ UNCHANGED dashVars

\* ... for a request of some other client than the hook.
Get(q) == GetFor(q) /\ UNCHANGED hook

\* Time passes, up to the next moment at which something can change: a
\* cleanup falling due, the end of a rate-limit window, the millisecond after.
Dues == {tm.due : tm \in timers}
WindowEnds ==
  {store[k].resetTime : k \in DOMAIN store}
  \cup {store[k].resetTime + 1 : k \in DOMAIN store}

Elapse(t, horizon) ==
  /\ t > now
  /\ t <= horizon
  /\ now' = t
  /\ resp' = NoResp
  /\ UNCHANGED <<store, win, apiKey, tasks, issued, history, reading,
                 fetching, timers>>
  /\ UNCHANGED clientVars

Advance(t) == t \in Dues /\ Elapse(t, t)
AdvanceRL(t) == t \in WindowEnds /\ Elapse(t, MaxTimeRL)

\* ------------------------------------------------------------- the clients
\* useState(...) of the dashboard page, with no request out.
IdlePage ==
  [generating |-> FALSE, progress |-> 0, error |-> "null",
   generatedVideo |-> "null", intervals |-> 0, awaiting |-> FALSE,
   data |-> [none |-> TRUE]]

\* useState(...) of useGeneration, before any call of generate().
IdleHook == [isGenerating |-> FALSE, task |-> [none |-> TRUE], calls |-> <<>>]

Init ==
  /\ now = 0
  /\ store = <<>>
  /\ win = <<>>
  /\ apiKey \in BOOLEAN
  /\ tasks = <<>>
  /\ issued = {}
  /\ history = <<>>
  /\ reading = 0
  /\ fetching = {}
  /\ timers = {}
  /\ resp = NoResp
  /\ ui = IdlePage
  /\ videoTasks = <<>>
  /\ runway = <<>>
  /\ checking = {}
  /\ hook = IdleHook

\* The whole route for callers that send a valid body: admissions, every
\* upstream outcome, the cleanups and the status queries.
ValidBodies ==
  {[type |-> t, prompt |-> MAX_PROMPT_LENGTH] : t \in {"image", "video"}}

Next ==
  \/ \E h \in Headers : PostArrive(h)
  \/ \E b \in ValidBodies : PostBody(b, MaxTasks)
  \/ \E id \in fetching, r \in Upstream : UpstreamDone(id, r)
  \/ \E tm \in timers : Expire(tm)
  \/ \E q \in Queries : Get(q)
  \/ \E t \in Dues : Advance(t)

Spec == Init /\ [][Next]_vars

\* The writers of the task store alone (GET only reads it): admissions, every
\* upstream outcome and the cleanups.
NextStore ==
  \/ \E h \in Headers : PostArrive(h)
  \/ \E b \in ValidBodies : PostBody(b, MaxTasks)
  \/ \E id \in fetching, r \in Upstream : UpstreamDone(id, r)
  \/ \E tm \in timers : Expire(tm)
  \/ \E t \in Dues : Advance(t)

SpecStore == Init /\ [][NextStore]_vars

\* One good and one bad upstream answer; the good one carries a video URL, so
\* an image task that receives it fails for want of its URL.
GateUpstream ==
  {[kind |-> "notok"], [kind |-> "ok", output |-> [video |-> "https://cdn/v.mp4"]]}

\* The cleanups while the process keeps running: a cleanup that is due runs,
\* and the clock reaches the next cleanup that is scheduled.
NextTimers ==
  \/ \E h \in Headers : PostArrive(h)
  \/ \E b \in ValidBodies : PostBody(b, MaxTasks)
  \/ \E id \in fetching, r \in GateUpstream : UpstreamDone(id, r)
  \/ \E tm \in timers : Expire(tm)
  \/ \E t \in Dues : Advance(t)

FairSpec ==
  /\ Init /\ [][NextTimers]_vars
  /\ WF_vars(\E tm \in timers : Expire(tm))
  /\ WF_vars(\E t \in Dues : Advance(t))

\* The gate of POST: every kind of body and enough requests to exhaust the
\* rate limit, all inside one rate-limit window and before any cleanup falls
\* due.
NextGate ==
  \/ \E h \in Headers : PostArrive(h)
  \/ \E h \in Headers, b \in Bodies : PostLimited(h, b)
  \/ \E b \in Bodies : PostBody(b, MaxTasks)
  \/ \E id \in fetching, r \in GateUpstream : UpstreamDone(id, r)

SpecGate == Init /\ [][NextGate]_vars

\* Task ids over the life of the store: valid and invalid bodies, requests
\* turned away by the rate limit, and the cleanups that delete records.
IdBodies == ValidBodies \cup {[type |-> "video"]}

NextIds ==
  \/ \E h \in Headers : PostArrive(h)
  \/ \E h \in Headers, b \in IdBodies : PostLimited(h, b)
  \/ \E b \in IdBodies : PostBody(b, MaxTasks)
  \/ \E id \in fetching, r \in GateUpstream : UpstreamDone(id, r)
  \/ \E tm \in timers : Expire(tm)
  \/ \E t \in Dues : Advance(t)

SpecIds == Init /\ [][NextIds]_vars

\* Status queries over the life of tasks, with an upstream that answers every
\* call sooner or later.
NextPoll ==
  \/ \E h \in Headers : PostArrive(h)
  \/ \E b \in ValidBodies : PostBody(b, MaxTasksPoll)
  \/ \E id \in fetching, r \in GateUpstream : UpstreamDone(id, r)
  \/ \E tm \in timers : Expire(tm)
  \/ \E q \in Queries : Get(q)
  \/ \E t \in Dues : Advance(t)

SpecPoll == Init /\ [][NextPoll]_vars

FairPoll ==
  /\ Init /\ [][NextPoll]_vars
  /\ WF_vars(\E id \in fetching, r \in GateUpstream : UpstreamDone(id, r))

\* The task store under a burst of requests: enough admissions to fill the
\* concurrency cap, all inside one rate-limit window and before any cleanup
\* falls due, with one valid and one invalid body.
CapBodies == {[type |-> "video", prompt |-> MAX_PROMPT_LENGTH], [type |-> "video"]}

NextCap ==
  \/ \E h \in Headers : PostArrive(h)
  \/ \E h \in Headers, b \in CapBodies : PostLimited(h, b)
  \/ \E b \in CapBodies : PostBody(b, MaxTasksCap)
  \/ \E id \in fetching, r \in GateUpstream : UpstreamDone(id, r)

SpecCap == Init /\ [][NextCap]_vars

\* The task store under everything the route does to it: admissions,
\* requests turned away by the rate limit and by validation, upstream
\* answers, cleanups and status queries.
IdQueries == {[kind |-> "id", id |-> i] : i \in TaskIds}

NextFrame ==
  \/ \E h \in Headers : PostArrive(h)
  \/ \E h \in Headers, b \in IdBodies : PostLimited(h, b)
  \/ \E b \in IdBodies : PostBody(b, MaxTasksPoll)
  \/ \E id \in fetching, r \in GateUpstream : UpstreamDone(id, r)
  \/ \E tm \in timers : Expire(tm)
  \/ \E q \in IdQueries : Get(q)
  \/ \E t \in Dues : Advance(t)

SpecFrame == Init /\ [][NextFrame]_vars

\* The rate limiter on its own: check and cleanup called directly.
NextRL ==
  \/ \E k \in RLKeys : Check(k)
  \/ Cleanup
  \/ \E t \in WindowEnds : AdvanceRL(t)

SpecRL == Init /\ [][NextRL]_vars

\* ------------------------------------- /api/generate-video and the dashboard
\* What /api/generate-video and the dashboard never touch (resp apart).
routeVars == <<now, store, win, apiKey, tasks, issued, history, reading,
               fetching, timers, hook>>

\* The multipart form of a POST: the MIME type of the image file ("none"
\* without a file) and the prompt.
Forms ==
  {[image |-> i, prompt |-> p] :
     i \in {"none", "image/png", "text/plain"}, p \in {"", "zoom in"}}

\* imageFile.type.startsWith('image/')
IsImage(t) == t = "image/png"

\* POST /api/generate-video with the given form; sdk is what
\* runway.imageToVideo.create comes back with.  When the first attempt
\* throws, the fallback reads request.formData() a second time, which
\* rejects because the body was consumed, so it always ends in the 500.
VideoPost(form, sdk) ==
  LET id == Cardinality(DOMAIN runway) + 1 IN
  /\ IF form.image = "none" \/ form.prompt = ""
     THEN /\ resp' = [op |-> "VIDEO_POST", code |-> 400,
                      error |-> "Image and prompt are required."]
          /\ UNCHANGED <<videoTasks, runway>>
     ELSE IF ~IsImage(form.image)
     THEN /\ resp' = [op |-> "VIDEO_POST", code |-> 400,
                      error |-> "Invalid file type. Please upload an image."]
          /\ UNCHANGED <<videoTasks, runway>>
     ELSE IF ~apiKey \/ sdk = "reject"
     THEN /\ resp' = [op |-> "VIDEO_POST", code |-> 500,
                      error |-> "Failed to generate video with Gen-4 Turbo."]
          /\ UNCHANGED <<videoTasks, runway>>
     ELSE /\ id <= MaxVideoTasks
          /\ runway' = put(runway, id, [status |-> "PENDING", output |-> Absent,
                                        error |-> Absent])
          /\ videoTasks' = put(videoTasks, id,
                               [id |-> id, status |-> "pending", progress |-> 0,
                                videoUrl |-> Absent, error |-> Absent])
          /\ resp' = [op |-> "VIDEO_POST", code |-> 200, taskId |-> id,
                      status |-> "pending", videoUrl |-> Absent]
  /\ UNCHANGED <<ui, checking>>
  /\ UNCHANGED routeVars

\* The Runway API works on a task.
RunwaySteps ==
  {<<"PENDING", "RUNNING">>, <<"RUNNING", "SUCCEEDED">>,
   <<"PENDING", "FAILED">>, <<"RUNNING", "FAILED">>}
RunwayStep(id, to) ==
  /\ id \in DOMAIN runway
  /\ <<runway[id].status, to>> \in RunwaySteps
  /\ runway' = [runway EXCEPT
                  ![id] = [status |-> to,
                           output |-> IF to = "SUCCEEDED"
                                      THEN "https://cdn/out.mp4" ELSE Absent,
                           error |-> IF to = "FAILED"
                                     THEN "generation failed" ELSE Absent]]
  /\ resp' = NoResp
  /\ UNCHANGED <<ui, videoTasks, checking>>
  /\ UNCHANGED routeVars

\* The taskId parameter of a GET /api/generate-video.
VideoQueries ==
  {[kind |-> "none"]} \cup {[kind |-> "id", id |-> i] : i \in 1..MaxVideoTasks}

\* GET /api/generate-video?taskId=q up to `await fetch`, with the answer the
\* Runway API gives to that fetch.
VideoGetAsk(q) ==
  /\ IF q.kind = "none"
     THEN /\ resp' = [op |-> "VIDEO_GET", code |-> 400,
                      error |-> "Task ID is required"]
          /\ UNCHANGED checking
     ELSE IF ~apiKey
     THEN /\ resp' = [op |-> "VIDEO_GET", code |-> 500,
                      error |-> "RUNWAY_API_KEY is not configured"]
          /\ UNCHANGED checking
     ELSE /\ Cardinality(checking) < MaxChecking
          /\ checking' = checking \cup
               {[id |-> q.id,
                 data |-> IF q.id \in DOMAIN runway
                          THEN [ok |-> TRUE, status |-> runway[q.id].status,
                                output |-> runway[q.id].output,
                                error |-> runway[q.id].error]
                          ELSE [ok |-> FALSE]]}
          /\ resp' = NoResp
  /\ UNCHANGED <<ui, videoTasks, runway>>
  /\ UNCHANGED routeVars

\* The progress GET derives from an upstream status, and the status in lower
\* case that it returns.
progressOf(status) ==
  IF status = "SUCCEEDED" THEN 100 ELSE IF status = "FAILED" THEN 0 ELSE 50
toLowerCase(status) ==
  CASE status = "PENDING" -> "pending" [] status = "RUNNING" -> "running"
    [] status = "SUCCEEDED" -> "succeeded" [] status = "FAILED" -> "failed"

\* GET /api/generate-video from the upstream answer on.
VideoGetDone(c) ==
  /\ c \in checking
  /\ checking' = checking \ {c}
  /\ IF ~c.data.ok
     THEN /\ resp' = [op |-> "VIDEO_GET", code |-> 500,
                      error |-> "Failed to check task status"]
          /\ UNCHANGED videoTasks
     ELSE /\ videoTasks' =
               IF c.id \in DOMAIN videoTasks
               THEN [videoTasks EXCEPT
                       ![c.id].status = c.data.status,
                       ![c.id].progress = progressOf(c.data.status),
                       ![c.id].videoUrl =
                          IF c.data.status = "SUCCEEDED" /\ c.data.output # Absent
                          THEN c.data.output ELSE @,
                       ![c.id].error =
                          IF c.data.status = "FAILED" /\ c.data.error # Absent
                          THEN c.data.error ELSE @]
               ELSE videoTasks
          /\ resp' = [op |-> "VIDEO_GET", code |-> 200, taskId |-> c.id,
                      status |-> toLowerCase(c.data.status),
                      progress |-> progressOf(c.data.status),
                      videoUrl |-> IF c.data.status = "SUCCEEDED"
                                   THEN c.data.output ELSE "null",
                      error |-> IF c.data.status = "FAILED"
                                THEN c.data.error ELSE "null"]
  /\ UNCHANGED <<ui, runway>>
  /\ UNCHANGED routeVars

\* handleGenerate of the dashboard up to `await fetch`; the button that calls
\* it is disabled while a generation runs.
HandleGenerate(form) ==
  /\ ~ui.generating
  /\ IF form.image = "none" \/ form.prompt = ""
     THEN ui' = [ui EXCEPT !.error = "Please provide both an image and a prompt"]
     ELSE /\ ui.intervals < MaxIntervals
          /\ ui' = [ui EXCEPT !.generating = TRUE, !.progress = 0,
                              !.error = "null", !.generatedVideo = "null",
                              !.intervals = @ + 1, !.awaiting = TRUE]
  /\ resp' = NoResp
  /\ UNCHANGED <<videoTasks, runway, checking>>
  /\ UNCHANGED routeVars

Min(a, b) == IF a < b THEN a ELSE b

\* A callback of a progress interval of the dashboard.
ProgressTick ==
  /\ ui.intervals > 0
  /\ ui' = [ui EXCEPT !.progress = Min(@ + 10, 90)]
  /\ ui' # ui
  /\ resp' = NoResp
  /\ UNCHANGED <<videoTasks, runway, checking>>
  /\ UNCHANGED routeVars

\* handleGenerate resumes with the response of its POST (the one the route
\* has just sent).
PageResponse ==
  /\ ui.awaiting
  /\ resp.op = "VIDEO_POST"
  /\ ui' = IF resp.code # 200
           THEN [ui EXCEPT !.intervals = @ - 1, !.error = resp.error,
                           !.generating = FALSE, !.awaiting = FALSE]
           ELSE [ui EXCEPT !.intervals = @ - 1, !.progress = 100,
                           !.generatedVideo = resp.videoUrl,
                           !.data = [taskId |-> resp.taskId,
                                     status |-> resp.status],
                           !.generating = FALSE, !.awaiting = FALSE]
  /\ resp' = NoResp
  /\ UNCHANGED <<videoTasks, runway, checking>>
  /\ UNCHANGED routeVars

\* The fetch of handleGenerate rejects: the catch and finally blocks run, the
\* clearInterval after the fetch does not.
PageFetchRejects ==
  /\ ui.awaiting
  /\ ui' = [ui EXCEPT !.error = "Failed to fetch", !.generating = FALSE,
                      !.awaiting = FALSE]
  /\ resp' = NoResp
  /\ UNCHANGED <<videoTasks, runway, checking>>
  /\ UNCHANGED routeVars

\* The dashboard page against /api/generate-video and the Runway API.
NextDash ==
  \/ \E form \in Forms : HandleGenerate(form)
  \/ ProgressTick
  \/ \E form \in Forms, sdk \in {"ok", "reject"} : VideoPost(form, sdk)
  \/ PageResponse
  \/ PageFetchRejects
  \/ \E id \in DOMAIN runway, to \in {"RUNNING", "SUCCEEDED", "FAILED"} :
       RunwayStep(id, to)

SpecDash == Init /\ [][NextDash]_vars

\* The /api/generate-video route on its own against the Runway API.
NextVideo ==
  \/ \E form \in Forms, sdk \in {"ok", "reject"} : VideoPost(form, sdk)
  \/ \E id \in DOMAIN runway, to \in {"RUNNING", "SUCCEEDED", "FAILED"} :
       RunwayStep(id, to)
  \/ \E q \in VideoQueries : VideoGetAsk(q)
  \/ \E c \in checking : VideoGetDone(c)

SpecVideo == Init /\ [][NextVideo]_vars

\* ------------------------------------------------ useGeneration (client hook)
\* What the hook alone never touches (resp apart).
hookFrame == <<now, store, win, apiKey, tasks, issued, history, reading,
               fetching, timers, ui, videoTasks, runway, checking>>

\* The body startGeneration posts: {type, prompt} of the props of the hook.
HookBodies ==
  {[type |-> "video", prompt |-> MAX_PROMPT_LENGTH], [type |-> "video", prompt |-> 0]}

\* A call of generate(): the isGenerating its closure holds, the body it
\* posts, how far it got (its POST sent, being read by the route, answered;
\* polling; aborted), the answer to its POST on its way back, its
\* pollInterval and timeout timer, its status queries on their way to the
\* route and their answers on their way back, and what it did so far (queries
\* started, a poll returned true, callbacks invoked).
newCall(captured, b) ==
  [captured |-> captured, body |-> b, phase |-> "sent", answer |-> NoResp,
   taskId |-> 0,
   interval |-> FALSE, since |-> 0, nextTick |-> 0,
   timeout |-> "none", timeoutAt |-> 0,
   sent |-> 0, answers |-> <<>>, started |-> 0, done |-> FALSE,
   completes |-> 0, errors |-> 0, timeouts |-> 0]

Calls == DOMAIN hook.calls

\* A call of generate() that is over: nothing of it can run any more. What
\* it did is not followed further once generate() is called again.
over(c) ==
  \/ c.phase \in {"aborted", "over"}
  \/ c.phase = "polling" /\ ~c.interval /\ c.timeout = "fired"
     /\ c.sent = 0 /\ c.answers = <<>>

forget(c) == [newCall(FALSE, c.body) EXCEPT !.phase = "over"]

\* generate() is called, the calls before it being over: startGeneration runs
\* up to `await fetch`.
Generate(b) ==
  /\ Len(hook.calls) < MaxCalls
  /\ \A c \in Calls : over(hook.calls[c])
  /\ hook' = [hook EXCEPT
                !.isGenerating = TRUE,
                !.calls = Append([c \in Calls |-> forget(hook.calls[c])],
                                 newCall(hook.isGenerating, b))]
  /\ resp' = NoResp
  /\ UNCHANGED hookFrame

\* The route takes the POST of call c, reads its body, and answers it.
HookPostArrive(c) ==
  /\ c \in Calls /\ hook.calls[c].phase = "sent"
  /\ PostArriveFor(NoHeader)
  /\ hook' = [hook EXCEPT !.calls[c].phase = "reading"]

HookPostBody(c) ==
  /\ c \in Calls /\ hook.calls[c].phase = "reading"
  /\ PostBodyFor(hook.calls[c].body, MaxTasks)
  /\ hook' = [hook EXCEPT !.calls[c].phase = "answered",
                          !.calls[c].answer = resp']

\* startGeneration throws (response not OK, or the fetch rejects): its catch
\* block reports the error, and generate() sets up no timer.
startFailed(c) ==
  [c EXCEPT !.phase = "aborted", !.answer = NoResp, !.errors = @ + 1]

\* startGeneration returns the taskId, and generate() sets the pollInterval
\* and the timeout timer at time t.
startPolling(c, id, t) ==
  [c EXCEPT !.phase = "polling", !.answer = NoResp, !.taskId = id,
            !.interval = TRUE, !.since = t, !.nextTick = t + PollIntervalMs,
            !.timeout = "armed", !.timeoutAt = t + GenerationTimeoutMs]

\* generate() of call c resumes with the response to its POST.
StartAnswered(c) ==
  /\ c \in Calls /\ hook.calls[c].phase = "answered"
  /\ hook' = IF hook.calls[c].answer.code # 200
             THEN [hook EXCEPT !.isGenerating = FALSE,
                               !.calls[c] = startFailed(@)]
             ELSE [hook EXCEPT !.calls[c] =
                                 startPolling(@, hook.calls[c].answer.taskId, now)]
  /\ resp' = NoResp
  /\ UNCHANGED hookFrame

\* The POST of call c rejects: the request never reached the route, or its
\* answer was lost.
StartRejects(c) ==
  /\ c \in Calls /\ hook.calls[c].phase \in {"sent", "answered"}
  /\ hook' = [hook EXCEPT !.isGenerating = FALSE, !.calls[c] = startFailed(@)]
  /\ resp' = NoResp
  /\ UNCHANGED hookFrame

\* A callback of the pollInterval of call c: pollTaskStatus up to `await fetch`.
TickUpTo(c, maxPolls) ==
  /\ c \in Calls /\ hook.calls[c].interval
  /\ now >= hook.calls[c].nextTick
  /\ hook.calls[c].started < maxPolls
  /\ hook' = [hook EXCEPT !.calls[c].sent = @ + 1,
                          !.calls[c].started = @ + 1,
                          !.calls[c].nextTick = @ + PollIntervalMs]
  /\ resp' = NoResp
  /\ UNCHANGED hookFrame

Tick(c) == TickUpTo(c, MaxPolls)

\* The route answers a status query of call c.
HookGet(c) ==
  /\ c \in Calls /\ hook.calls[c].sent > 0
  /\ GetFor([kind |-> "id", id |-> hook.calls[c].taskId])
  /\ hook' = [hook EXCEPT !.calls[c].sent = @ - 1,
                          !.calls[c].answers = Append(@, resp')]

\* pollTaskStatus from the response r on (op "reject" when the fetch threw):
\* what it returns, whether it calls setIsGenerating(false), the callbacks it
\* invokes and the task it sets.
pollTaskStatus(r) ==
  IF r.op = "reject" \/ r.code # 200
  THEN [isDone |-> TRUE, stops |-> TRUE, onComplete |-> 0, onError |-> 1,
        task |-> [none |-> TRUE]]
  ELSE IF r.task.status = "completed"
  THEN [isDone |-> TRUE, stops |-> TRUE,
        onComplete |-> IF r.task.result # Absent /\ r.task.result # "" THEN 1 ELSE 0,
        onError |-> 0, task |-> r.task]
  ELSE IF r.task.status = "failed"
  THEN [isDone |-> TRUE, stops |-> TRUE, onComplete |-> 0, onError |-> 1,
        task |-> r.task]
  ELSE [isDone |-> FALSE, stops |-> FALSE, onComplete |-> 0, onError |-> 0,
        task |-> r.task]

\* An interval callback that goes on after a poll that returned true.
afterPoll_keepsInterval(c, p) ==
  [c EXCEPT !.done = @ \/ p.isDone,
            !.completes = @ + p.onComplete, !.errors = @ + p.onError]

\* The interval callback of call c after `await pollTaskStatus`, which
\* returned p.
afterPoll(c, p) ==
  [c EXCEPT !.interval = IF p.isDone THEN FALSE ELSE @,
            !.done = @ \/ p.isDone,
            !.completes = @ + p.onComplete, !.errors = @ + p.onError]

\* pollTaskStatus of call c resumes with r, and its interval callback after
\* it; d is the call without the query that r answers.
PollReturns(c, d, r) ==
  LET p == pollTaskStatus(r) IN
  /\ hook' = [hook EXCEPT
                !.isGenerating = IF p.stops THEN FALSE ELSE @,
                !.task = IF has(p.task, "none") THEN @ ELSE p.task,
                !.calls[c] = afterPoll(d, p)]
  /\ resp' = NoResp
  /\ UNCHANGED hookFrame

without(s, i) == [j \in 1..(Len(s) - 1) |-> IF j < i THEN s[j] ELSE s[j + 1]]

\* A status query of call c is answered: the i-th of the answers on their way.
PollAnswered(c, i) ==
  /\ c \in Calls /\ i \in DOMAIN hook.calls[c].answers
  /\ PollReturns(c, [hook.calls[c] EXCEPT !.answers = without(@, i)],
                 hook.calls[c].answers[i])

\* A status query of call c rejects before it reaches the route.
PollRejects(c) ==
  /\ c \in Calls /\ hook.calls[c].sent > 0
  /\ PollReturns(c, [hook.calls[c] EXCEPT !.sent = @ - 1], [op |-> "reject"])

\* A timeout callback that also cancels the work of the server on the task.
Timeout_cancels(c) ==
  /\ c \in Calls /\ hook.calls[c].timeout = "armed"
  /\ now >= hook.calls[c].timeoutAt
  /\ hook' = [hook EXCEPT !.calls[c].interval = FALSE,
                          !.calls[c].timeout = "fired"]
  /\ fetching' = fetching \ {hook.calls[c].taskId}
  /\ resp' = NoResp
  /\ UNCHANGED <<now, store, win, apiKey, tasks, issued, history, reading,
                 timers, ui, videoTasks, runway, checking>>

\* The timeout callback of call c: it tests the isGenerating of its closure.
Timeout(c) ==
  /\ c \in Calls /\ hook.calls[c].timeout = "armed"
  /\ now >= hook.calls[c].timeoutAt
  /\ hook' = IF hook.calls[c].captured
             THEN [hook EXCEPT !.isGenerating = FALSE,
                               !.calls[c].interval = FALSE,
                               !.calls[c].timeout = "fired",
                               !.calls[c].errors = @ + 1,
                               !.calls[c].timeouts = @ + 1]
             ELSE [hook EXCEPT !.calls[c].interval = FALSE,
                               !.calls[c].timeout = "fired"]
  /\ resp' = NoResp
  /\ UNCHANGED hookFrame

\* The timers of the hook fire when they are due: time passes up to the
\* earliest of them.
HookDuesUpTo(maxPolls) ==
  {hook.calls[c].nextTick :
     c \in {d \in Calls : hook.calls[d].interval /\ hook.calls[d].started < maxPolls}}
  \cup {hook.calls[c].timeoutAt : c \in {d \in Calls : hook.calls[d].timeout = "armed"}}
HookDues == HookDuesUpTo(MaxPolls)
AdvanceHookUpTo(t, maxPolls) ==
  /\ t \in HookDuesUpTo(maxPolls)
  /\ \A u \in HookDuesUpTo(maxPolls) : t <= u
  /\ Elapse(t, t)
AdvanceHook(t) == AdvanceHookUpTo(t, MaxPolls)

\* The hook against /api/generate: calls of generate(), the route serving
\* them, one good and one bad upstream answer, and the timers of the hook.
NextHook ==
  \/ \E b \in HookBodies : Generate(b)
  \/ \E c \in Calls : HookPostArrive(c)
  \/ \E c \in Calls : HookPostBody(c)
  \/ \E c \in Calls : StartAnswered(c)
  \/ \E c \in Calls : StartRejects(c)
  \/ \E c \in Calls : Tick(c)
  \/ \E c \in Calls : HookGet(c)
  \/ \E c \in Calls : \E i \in DOMAIN hook.calls[c].answers : PollAnswered(c, i)
  \/ \E c \in Calls : PollRejects(c)
  \/ \E c \in Calls : Timeout(c)
  \/ \E t \in HookDues : AdvanceHook(t)
  \/ \E id \in fetching, r \in GateUpstream : UpstreamDone(id, r)

SpecHook == Init /\ [][NextHook]_vars

ValidHookBodies == {b \in HookBodies : b.prompt > 0}

\* generate() is called again while an earlier call is still going on.
GenerateAgain(b) ==
  /\ Len(hook.calls) >= 1
  /\ Len(hook.calls) < MaxCallsOverlap
  /\ \E c \in Calls : ~over(hook.calls[c])
  /\ hook' = [hook EXCEPT
                !.isGenerating = TRUE,
                !.calls = Append(@, newCall(hook.isGenerating, b))]
  /\ resp' = NoResp
  /\ UNCHANGED hookFrame

\* The hook when generate() is called a second time during a generation: the
\* requests reach the route and are answered, and the upstream answers well
\* or badly.
NextOverlap ==
  \/ \E b \in ValidHookBodies : Generate(b)
  \/ \E b \in ValidHookBodies : GenerateAgain(b)
  \/ \E c \in Calls : HookPostArrive(c)
  \/ \E c \in Calls : HookPostBody(c)
  \/ \E c \in Calls : StartAnswered(c)
  \/ \E c \in Calls : TickUpTo(c, MaxPollsOverlap)
  \/ \E c \in Calls : HookGet(c)
  \/ \E c \in Calls : \E i \in DOMAIN hook.calls[c].answers : PollAnswered(c, i)
  \/ \E c \in Calls : Timeout(c)
  \/ \E t \in HookDuesUpTo(MaxPollsOverlap) : AdvanceHookUpTo(t, MaxPollsOverlap)
  \/ \E id \in fetching, r \in GateUpstream : UpstreamDone(id, r)

SpecOverlap == Init /\ [][NextOverlap]_vars

\* ------------------------------------------------------------------ claims
Active == activeTasks(tasks)
Terminal(t) == t.status = "completed" \/ t.status = "failed"

\* A body with a type of image or video and a prompt of 1..1000 characters.
Valid(b) ==
  /\ has(b, "type") /\ b.type \in {"image", "video"}
  /\ has(b, "prompt") /\ b.prompt >= 1 /\ b.prompt <= MAX_PROMPT_LENGTH

\* The step answers a POST (resp holds only the answer of the step just taken).
AnswersPost == resp'.op = "POST"
NoTaskTouched == UNCHANGED <<tasks, issued, history, fetching, timers>>

\* C1 as stated: the number of pending or processing tasks never exceeds the
\* cap, and every POST answered while that number is at the cap is answered
\* 429 and adds no task.
C1_AnyPostAtCapIs429 ==
  [][(AnswersPost /\ Cardinality(Active) >= MAX_CONCURRENT_TASKS)
       => (resp'.code = 429 /\ NoTaskTouched)]_vars

\* C1 as amended: the number of pending or processing tasks never exceeds the
\* cap; a POST whose concurrency check runs while that number is at the cap
\* adds no task, and is answered 429 when its type and prompt are valid (an
\* invalid one is answered 400 by the validation, which comes first).
C1_CapNeverExceeded ==
  /\ [](Cardinality(Active) <= MAX_CONCURRENT_TASKS)
  /\ [][(AnswersPost /\ Cardinality(Active) >= MAX_CONCURRENT_TASKS) =>
          \A b \in CapBodies :
            PostBody(b, MaxTasksCap)
              => /\ NoTaskTouched
                 /\ resp'.code # 200
                 /\ Valid(b) =>
                      /\ resp'.code = 429
                      /\ resp'.error = "Maximum number of concurrent tasks reached"]_vars

C1_Witness ==
  /\ Cardinality(Active) = MAX_CONCURRENT_TASKS
  /\ resp.op = "POST" /\ resp.code = 429
  /\ resp.error = "Maximum number of concurrent tasks reached"

\* C3: of the checks of one key that fall in one window, the first `limit`
\* succeed, and each later one fails with remaining = 0.
C3_LimitPerWindow ==
  resp.op = "check" =>
    LET n == win[resp.key].n
    IN  /\ n <= limit => resp.success
        /\ n > limit => (~resp.success /\ resp.remaining = 0)

C3_Witness ==
  /\ resp.op = "check" /\ ~resp.success /\ resp.remaining = 0
  /\ win[resp.key].n = limit + 1

\* C4: a check of a key that has no window yet, or whose window is over by the
\* clock, succeeds and leaves the key with count 1 and a window that ends
\* windowMs after the check, however many checks the window before had.
C4_WindowReopens ==
  [][\A k \in RLKeys :
       (resp'.op = "check" /\ resp'.key = k
        /\ (k \notin DOMAIN win \/ now > win[k].end))
         => /\ resp'.success
            /\ store'[k] = [count |-> 1, resetTime |-> now + windowMs]]_vars

C4_Witness ==
  /\ resp.op = "check" /\ resp.success
  /\ now > windowMs
  /\ win[resp.key].n = 1
  /\ store[resp.key] = [count |-> 1, resetTime |-> now + windowMs]
  /\ \E k \in DOMAIN store : k # resp.key /\ store[k].count = limit

\* C2: the values assigned to the status of a stored task, in order, are a
\* subsequence of pending, processing, completed or of pending, processing,
\* failed, and the last of them is the status the record has.
StatusChains ==
  {<<"pending", "processing", "completed">>, <<"pending", "processing", "failed">>}
IsSubsequence(a, c) ==
  \E pos \in [1..Len(a) -> 1..Len(c)] :
    /\ \A i \in 1..Len(a) : a[i] = c[pos[i]]
    /\ \A i \in 1..(Len(a) - 1) : pos[i] < pos[i + 1]
C2_StatusOrder ==
  \A id \in DOMAIN tasks :
    /\ Len(history[id]) >= 1
    /\ history[id][Len(history[id])] = tasks[id].status
    /\ \E c \in StatusChains : IsSubsequence(history[id], c)

C2_Witness ==
  \E id \in DOMAIN tasks, jd \in DOMAIN tasks :
    /\ history[id] = <<"pending", "processing", "completed">>
    /\ history[jd] = <<"pending", "processing", "failed">>

\* The request that a step answers carries body b: read by the handler, or
\* never read because the rate limiter answered first.
Long(b) == has(b, "prompt") /\ b.prompt > MAX_PROMPT_LENGTH
Posts(b) == PostBody(b, MaxTasks) \/ \E h \in Headers : PostLimited(h, b)

\* C5 as stated: every POST whose prompt is longer than 1000 characters is
\* answered 400 and leaves the task store as it was.
C5_LongPromptIs400 ==
  [][AnswersPost =>
       \A b \in Bodies :
         (Long(b) /\ Posts(b)) => (resp'.code = 400 /\ NoTaskTouched)]_vars

\* C5 as amended: every POST whose prompt is longer than 1000 characters is
\* rejected and leaves the task store as it was; it is answered 400 when the
\* handler reads the body, and 429 when the rate limiter answers first.
C5_LongPromptRejected ==
  [][AnswersPost =>
       \A b \in Bodies :
         Long(b) =>
           /\ PostBody(b, MaxTasks) => (resp'.code = 400 /\ NoTaskTouched)
           /\ (\E h \in Headers : PostLimited(h, b))
                => (resp'.code = 429 /\ NoTaskTouched)]_vars

C5_Witness ==
  /\ resp.op = "POST" /\ resp.code = 400
  /\ resp.error = "Prompt must be less than 1000 characters"
  /\ tasks # <<>>

\* A JSON body without a prompt, with an empty prompt, without a type, or with
\* a type that is neither image nor video.
Omits(b) ==
  /\ ~has(b, "bad")
  /\ \/ ~has(b, "prompt") \/ b.prompt = 0
     \/ ~has(b, "type") \/ b.type \notin {"image", "video"}

\* C6 as stated: every POST whose body omits the prompt or the type, or has an
\* empty prompt or another type, is answered 400 and creates no task.
C6_BadInputIs400 ==
  [][AnswersPost =>
       \A b \in Bodies :
         (Omits(b) /\ Posts(b)) => (resp'.code = 400 /\ NoTaskTouched)]_vars

\* C6 as amended: such a POST creates no task; it is answered 400 with a
\* validation message when the handler reads the body, and 429 when the rate
\* limiter answers first.
C6_BadInputRejected ==
  [][AnswersPost =>
       \A b \in Bodies :
         Omits(b) =>
           /\ PostBody(b, MaxTasks)
                => /\ resp'.code = 400
                   /\ resp'.error \in {"Type and prompt are required",
                                       "Type must be either image or video"}
                   /\ NoTaskTouched
           /\ (\E h \in Headers : PostLimited(h, b))
                => (resp'.code = 429 /\ NoTaskTouched)]_vars

C6_Witness ==
  /\ resp.op = "POST" /\ resp.code = 400
  /\ resp.error = "Type and prompt are required"
  /\ tasks # <<>>

\* C7: a GET with a taskId that is no key of the task store is answered 404,
\* and a GET with a taskId that is one is answered with the record.
StoreHas(q) == q.kind = "id" /\ q.id \in DOMAIN tasks
C7_UnknownIdIs404 ==
  (resp.op = "GET" /\ resp.q.kind # "none") =>
    IF StoreHas(resp.q)
    THEN resp.code = 200 /\ resp.task = tasks[resp.q.id]
    ELSE resp.code = 404

\* The step creates a task: a record with status pending under an id that
\* was never handed out, which the response returns.
Creates ==
  \E id \in (DOMAIN tasks') \ (DOMAIN tasks) :
    /\ id \notin issued
    /\ tasks'[id].id = id
    /\ history'[id][1] = "pending"
    /\ resp'.code = 200 /\ resp'.taskId = id
    /\ DOMAIN tasks' = (DOMAIN tasks) \cup {id}
    /\ \A j \in DOMAIN tasks : tasks'[j] = tasks[j]

\* C8 as stated: every POST with a valid type and prompt creates a task with
\* status pending and an id no task had before.
C8_ValidPostCreates ==
  [][AnswersPost => \A b \in Bodies : (Valid(b) /\ Posts(b)) => Creates]_vars

\* C8 as amended: a POST with a valid type and prompt that passes the rate
\* limit and finds fewer than 5 active tasks creates a task with status
\* pending and an id no task had before; every record is stored under its own
\* id, and an id that was handed out never enters the store again.
C8_AdmittedPostCreates ==
  /\ [](\A id \in DOMAIN tasks : tasks[id].id = id /\ id \in issued)
  /\ [][/\ AnswersPost =>
             \A b \in Bodies :
               (Valid(b) /\ PostBody(b, MaxTasks)
                /\ Cardinality(Active) < MAX_CONCURRENT_TASKS) => Creates
        /\ issued \subseteq issued'
        /\ \A id \in (DOMAIN tasks') \ (DOMAIN tasks) : id \notin issued]_vars

C8_Witness ==
  /\ resp.op = "POST" /\ resp.code = 200
  /\ resp.taskId \in DOMAIN tasks
  /\ \E old \in issued : old \notin DOMAIN tasks

\* C9: a stored task has a result only when completed and an error only when
\* failed, and never both.
C9_ResultAndError ==
  \A id \in DOMAIN tasks :
    /\ tasks[id].result # Absent => tasks[id].status = "completed"
    /\ tasks[id].error # Absent => tasks[id].status = "failed"
    /\ ~(tasks[id].result # Absent /\ tasks[id].error # Absent)

C9_Witness ==
  \E id \in DOMAIN tasks, jd \in DOMAIN tasks :
    /\ tasks[id].status = "completed" /\ tasks[id].result # Absent
    /\ tasks[jd].status = "failed" /\ tasks[jd].error # Absent

\* C10: a stored task has one cleanup scheduled when it is terminal and none
\* before; the cleanup is set, in the step that makes the task terminal, to 1
\* hour later for completed and 15 minutes later for failed; a record leaves
\* the store only when its own cleanup runs, not before that time, and no
\* other record changes in that step; and every terminal task does leave.
TimersOf(id) == {tm \in timers : tm.id = id}
BecomesTerminal(id) ==
  /\ id \in DOMAIN tasks' /\ Terminal(tasks'[id])
  /\ id \in DOMAIN tasks => ~Terminal(tasks[id])
C10_Cleanup ==
  /\ [](\A id \in DOMAIN tasks :
          Cardinality(TimersOf(id)) = (IF Terminal(tasks[id]) THEN 1 ELSE 0))
  /\ [][\A id \in TaskIds :
          /\ BecomesTerminal(id) =>
               [id |-> id,
                due |-> now + (IF tasks'[id].status = "completed"
                               THEN 3600000 ELSE 900000)] \in timers'
          /\ (id \in DOMAIN tasks /\ id \notin DOMAIN tasks') =>
               /\ Terminal(tasks[id])
               /\ \E tm \in TimersOf(id) : now >= tm.due /\ timers' = timers \ {tm}
               /\ \A j \in (DOMAIN tasks) \ {id} :
                    j \in DOMAIN tasks' /\ tasks'[j] = tasks[j]]_vars
  /\ \A id \in TaskIds :
       [](id \in DOMAIN tasks /\ Terminal(tasks[id]) => <>(id \notin DOMAIN tasks))

C10_Witness ==
  /\ now >= 3600000
  /\ \E id \in issued : id \notin DOMAIN tasks
  /\ \E id \in DOMAIN tasks : tasks[id].status = "completed" /\ TimersOf(id) # {}

\* C11: an admitted POST answers {taskId} when the record of that id is in the
\* store and, with the API key set, while the task is still processing and
\* its upstream call is still out; a GET of that id taken right after the
\* response, and any GET of an id whose record is in the store, is answered
\* with the record and not with not-found.
C11_AnsweredWhileStored ==
  /\ []((resp.op = "POST" /\ resp.code = 200) =>
          /\ resp.taskId \in DOMAIN tasks
          /\ tasks[resp.taskId].id = resp.taskId
          /\ apiKey => /\ tasks[resp.taskId].status = "processing"
                       /\ resp.taskId \in fetching)
  /\ []((resp.op = "GET" /\ StoreHas(resp.q)) =>
          (resp.code = 200 /\ resp.task = tasks[resp.q.id]))
  /\ [][(resp.op = "POST" /\ resp.code = 200) =>
          \A q \in Queries :
            (q.kind = "id" /\ q.id = resp.taskId /\ Get(q))
              => (resp'.code = 200 /\ resp'.task = tasks[resp.taskId])]_vars

C11_Witness ==
  /\ resp.op = "POST" /\ resp.code = 200
  /\ resp.taskId \in fetching
  /\ tasks[resp.taskId].status = "processing"

\* The upstream answer r is a success for task id: an OK response whose
\* payload has a URL for the type of the task.
Succeeds(id, r) ==
  /\ r.kind = "ok"
  /\ has(r.output, tasks[id].type)
  /\ r.output[tasks[id].type] # ""

Served(t) ==
  /\ t.status = "completed" /\ t.progress = 100
  /\ t.result # Absent /\ t.result # ""

\* C12: when the upstream call of an admitted task succeeds with a URL, the
\* task becomes completed with progress 100 and that URL as its result; every
\* upstream call that is out is answered in the end, which makes its task
\* terminal; a GET of a completed task that is in the store answers with
\* status completed, progress 100 and a non-empty result; and a completed
\* record stays as it is until it leaves the store.
C12_CompletedIsServed ==
  /\ [][\A id \in fetching, r \in GateUpstream :
          (Succeeds(id, r) /\ UpstreamDone(id, r))
            => (Served(tasks'[id]) /\ tasks'[id].result = r.output[tasks[id].type])]_vars
  /\ []((resp.op = "GET" /\ StoreHas(resp.q)
         /\ tasks[resp.q.id].status = "completed")
          => (resp.code = 200 /\ Served(resp.task)))
  /\ [][\A id \in DOMAIN tasks :
          tasks[id].status = "completed"
            => (id \notin DOMAIN tasks' \/ tasks'[id] = tasks[id])]_vars
  /\ \A id \in TaskIds :
       [](id \in fetching => <>(id \in DOMAIN tasks /\ Terminal(tasks[id])))

C12_Witness ==
  /\ resp.op = "GET" /\ resp.code = 200 /\ resp.q.kind = "id"
  /\ Served(resp.task) /\ resp.task.result = "https://cdn/v.mp4"

\* C13: with RUNWAY_API_KEY absent, a POST that is neither turned away by the
\* rate limit or the cap (429) nor invalid (400) is answered 500, not with a
\* taskId.
C13_NoKeyIs500 ==
  (~apiKey /\ resp.op = "POST" /\ resp.code \notin {400, 429})
    => resp.code = 500

\* C17: an upstream call is out only for a task that is processing; a call
\* is started only in the step that creates the task, under an id that was
\* never handed out before, so no task has a second one; and a call that
\* fails leaves the task failed with no call out.
C17_OneUpstreamCall ==
  /\ [](\A id \in fetching :
          id \in DOMAIN tasks /\ tasks[id].status = "processing")
  /\ [][/\ issued \subseteq issued'
        /\ \A id \in fetching' \ fetching :
             id \notin issued /\ id \notin DOMAIN tasks
        /\ \A id \in fetching, r \in Upstream :
             (~Succeeds(id, r) /\ UpstreamDone(id, r))
               => (tasks'[id].status = "failed" /\ id \notin fetching')]_vars

C17_Witness ==
  \E id \in DOMAIN tasks :
    /\ tasks[id].status = "failed" /\ tasks[id].error = "Runway API error"
    /\ id \notin fetching

\* C18: an OK upstream answer whose payload has no URL for the type of the
\* task (none at all, one for the other type only, or an empty one) leaves
\* the task failed with an error message and without a result; and no
\* completed task has an absent or empty result.
C18_NoUrlFails ==
  /\ [](\A id \in DOMAIN tasks :
          tasks[id].status = "completed"
            => (tasks[id].result # Absent /\ tasks[id].result # ""))
  /\ [][\A id \in fetching, r \in Upstream :
          (r.kind = "ok" /\ ~Succeeds(id, r) /\ UpstreamDone(id, r))
            => /\ tasks'[id].status = "failed"
               /\ tasks'[id].error # Absent /\ tasks'[id].error # ""
               /\ tasks'[id].result = Absent]_vars

C18_Witness ==
  \E id \in DOMAIN tasks :
    /\ tasks[id].status = "failed"
    /\ tasks[id].error = "No URL returned from Runway API"
    /\ tasks[id].result = Absent

\* C19: every failed task carries an error message; an upstream call that
\* fails marks its own task failed with a message, answers no request and
\* changes no other record; and the step that creates a task answers its POST
\* with the taskId, also when the task has failed by then (no API key), and
\* changes no other record.
C19_ErrorsStayInTask ==
  /\ [](\A id \in DOMAIN tasks :
          tasks[id].status = "failed" => tasks[id].error # Absent)
  /\ [](resp.op = "POST" => resp.code # 500)
  /\ [][/\ \A id \in fetching, r \in Upstream :
             (~Succeeds(id, r) /\ UpstreamDone(id, r))
               => /\ tasks'[id].status = "failed"
                  /\ tasks'[id].error # Absent
                  /\ resp' = NoResp
                  /\ DOMAIN tasks' = DOMAIN tasks
                  /\ \A j \in (DOMAIN tasks) \ {id} : tasks'[j] = tasks[j]
        /\ \A id \in (DOMAIN tasks') \ (DOMAIN tasks) :
             /\ resp' = [op |-> "POST", code |-> 200, taskId |-> id]
             /\ ~apiKey => /\ tasks'[id].status = "failed"
                           /\ tasks'[id].error = "RUNWAY_API_KEY is not configured"
             /\ \A j \in DOMAIN tasks : tasks'[j] = tasks[j]]_vars

C19_Witness ==
  /\ resp.op = "POST" /\ resp.code = 200
  /\ tasks[resp.taskId].status = "failed"
  /\ tasks[resp.taskId].error = "RUNWAY_API_KEY is not configured"
  /\ \E j \in DOMAIN tasks : j # resp.taskId

\* C14: when the dashboard shows a generation as finished (not generating,
\* progress 100) after a POST /api/generate-video that returned a taskId, the
\* Runway task of that id is terminal.
RunwayTerminal(id) == runway[id].status \in {"SUCCEEDED", "FAILED"}
C14_FinishedOnlyWhenTerminal ==
  (~ui.generating /\ ui.progress = 100 /\ has(ui.data, "taskId"))
    => RunwayTerminal(ui.data.taskId)

\* Call c is still polling, and its task has not reached a terminal status.
Running(c) ==
  /\ hook.calls[c].phase = "polling"
  /\ hook.calls[c].interval /\ ~hook.calls[c].done
  /\ hook.calls[c].taskId \in DOMAIN tasks
  /\ tasks[hook.calls[c].taskId].status \in {"pending", "processing"}

\* C15: when the timeout timer of a generate() call fires while the call is
\* still polling and its task has not reached a terminal status, the hook
\* stops polling, invokes
\* onError('Generation timed out') and isGenerating becomes false.
C15_TimeoutSurfaced ==
  [][\A c \in Calls :
       (Timeout(c) /\ Running(c))
         => /\ ~hook'.calls[c].interval
            /\ hook'.calls[c].timeouts = hook.calls[c].timeouts + 1
            /\ ~hook'.isGenerating]_vars

\* The status queries of call c that are in flight.
inFlight(c) == c.sent + Len(c.answers)

\* A status response that makes pollTaskStatus return true.
Final(r) == pollTaskStatus(r).isDone

\* C16: a generate() call starts a status query only on a tick of its
\* interval (the n-th query n intervals after polling started), one per tick,
\* and only while no poll has returned done; a poll that observes a terminal
\* status, or fails, clears the interval, which then stays cleared, so no
\* further status query of the call is started.
C16_PollsUntilDone ==
  /\ [](\A c \in Calls : hook.calls[c].done => ~hook.calls[c].interval)
  /\ [][\A c \in Calls :
          hook'.calls[c].phase # "over"
            => /\ hook'.calls[c].started # hook.calls[c].started
                  => /\ hook'.calls[c].started = hook.calls[c].started + 1
                     /\ hook.calls[c].phase = "polling"
                     /\ hook.calls[c].interval /\ ~hook.calls[c].done
                     /\ now = hook.calls[c].since
                                + PollIntervalMs * hook'.calls[c].started
               /\ \A i \in DOMAIN hook.calls[c].answers :
                    (PollAnswered(c, i) /\ Final(hook.calls[c].answers[i]))
                      => hook'.calls[c].done
               /\ PollRejects(c) => hook'.calls[c].done
               /\ hook.calls[c].done => hook'.calls[c].done]_vars

\* A call polled twice, a poll returned done and cleared the interval, and
\* the timeout timer of the call has not fired yet.
C16_Witness ==
  \E c \in Calls :
    /\ hook.calls[c].done /\ ~hook.calls[c].interval
    /\ hook.calls[c].started >= 2
    /\ hook.calls[c].timeout = "armed"
    /\ now < hook.calls[c].timeoutAt

\* C20: a generate() call never has more than one status query in flight.
C20_OneQueryInFlight ==
  \A c \in Calls : inFlight(hook.calls[c]) <= 1

C24_RejectedCheckIsFrame ==
  [][\A k \in RLKeys :
       Check(k)
         => /\ ~resp'.success
                 => /\ store' = store
                    /\ k \in DOMAIN store
                    /\ store[k].count = limit /\ now <= store[k].resetTime
            /\ DOMAIN store' = DOMAIN store \cup {k}
            /\ \A j \in DOMAIN store \ {k} : store'[j] = store[j]]_vars

\* A check has just been rejected while another key has an entry of its own.
C24_Witness ==
  /\ resp.op = "check" /\ ~resp.success
  /\ store[resp.key].count = limit
  /\ \E j \in DOMAIN store : j # resp.key /\ store[j].count < limit

\* C25: every entry of the limiter has a count from 1 to the limit; a check
\* that succeeds returns remaining = limit - count, with the count as the
\* check leaves it, a value from 0 to limit - 1; and a successful check inside
\* a running window returns one less than the count left before it.
C25_CountAndRemaining ==
  /\ [](\A k \in DOMAIN store : store[k].count >= 1 /\ store[k].count <= limit)
  /\ []((resp.op = "check" /\ resp.success)
          => /\ resp.remaining = limit - store[resp.key].count
             /\ resp.remaining \in 0..(limit - 1))
  /\ [][\A k \in RLKeys :
          (Check(k) /\ resp'.success /\ k \in DOMAIN store
           /\ now <= store[k].resetTime)
            => /\ store'[k].count = store[k].count + 1
               /\ resp'.remaining = (limit - store[k].count) - 1]_vars

\* The check that takes the last unit of a window has just succeeded.
C25_Witness ==
  /\ resp.op = "check" /\ resp.success /\ resp.remaining = 0
  /\ store[resp.key].count = limit

C23_ProgressNeverDecreases ==
  /\ [](\A id \in DOMAIN tasks :
          /\ tasks[id].progress \in 0..100
          /\ tasks[id].progress = (IF tasks[id].status = "completed" THEN 100 ELSE 0))
  /\ [](\A id \in DOMAIN videoTasks : videoTasks[id].progress \in 0..100)
  /\ [][\A id \in DOMAIN tasks \cap DOMAIN tasks' :
          tasks'[id].progress >= tasks[id].progress]_vars
  /\ [][\A id \in DOMAIN videoTasks \cap DOMAIN videoTasks' :
          videoTasks'[id].progress >= videoTasks[id].progress]_vars

\* C28: when no handleGenerate of the dashboard is suspended at its POST, no
\* progress interval is alive; while one is suspended the progress shown is
\* at most 90; and the progress becomes 100 only in the step that handles an
\* OK response.
C28_IntervalCleared ==
  /\ [](~ui.awaiting => ui.intervals = 0)
  /\ [](ui.awaiting => ui.progress <= 90)
  /\ [][(ui'.progress = 100 /\ ui.progress # 100)
          => (PageResponse /\ resp.code = 200)]_vars

\* What the server holds: the task store with its upstream calls and cleanup
\* timers, the rate limiter, and the requests it is reading.
serverVars == <<store, win, apiKey, tasks, issued, history, reading, fetching,
                timers>>

\* C21: the timeout callback of a generate() call changes nothing the server
\* holds and sends no request: the task of the call keeps its record, an
\* upstream call that is out stays out, and the task counts as active as
\* before; nor does a status query of the hook change anything but the answer
\* it gets.
C21_TimeoutLeavesServer ==
  [][\A c \in Calls :
       /\ Timeout(c)
            => /\ UNCHANGED serverVars
               /\ hook'.calls[c].sent = hook.calls[c].sent
               /\ hook'.calls[c].answers = hook.calls[c].answers
               /\ hook'.calls[c].started = hook.calls[c].started
               /\ activeTasks(tasks') = activeTasks(tasks)
       /\ HookGet(c) => UNCHANGED serverVars]_vars

\* The timeout timer of a call has fired while its task is still processing
\* with its upstream call out.
C21_Witness ==
  \E c \in Calls :
    /\ hook.calls[c].timeout = "fired"
    /\ hook.calls[c].taskId \in fetching
    /\ tasks[hook.calls[c].taskId].status = "processing"

\* C27: a generate() call invokes onComplete at most once, onError at most
\* once, and never both.
C27_OutcomeOnce ==
  \A c \in Calls :
    /\ hook.calls[c].completes <= 1
    /\ hook.calls[c].errors <= 1
    /\ ~(hook.calls[c].completes >= 1 /\ hook.calls[c].errors >= 1)

\* C30: the timeout callback of a generate() call reports a timeout only when
\* the call is still polling and no poll of it has returned done; after a
\* poll has observed a terminal status or failed, it reports nothing.
C30_TimeoutOnlyWhileRunning ==
  [][\A c \in Calls :
       Timeout(c)
         => /\ hook.calls[c].done
                 => /\ hook'.calls[c].timeouts = hook.calls[c].timeouts
                    /\ hook'.calls[c].errors = hook.calls[c].errors
            /\ hook'.calls[c].timeouts > hook.calls[c].timeouts
                 => (hook.calls[c].interval /\ ~hook.calls[c].done)]_vars

====
